---- MODULE Spec2Model ----
(***************************************************************************)
(* A model of blender-init (src/main.py): the tree transformation that     *)
(* rewrites a placeholder token through an extracted template tree, stages *)
(* the result in a scratch directory, checks the staging tree against the  *)
(* current directory and commits it.                                       *)
(*                                                                         *)
(* Strings (file names, file contents, the add-on name) are sequences of   *)
(* numbers: bytes for what is on disk, code points for decoded text.  A    *)
(* path is a sequence of names counted from the filesystem root; the       *)
(* filesystem is a function from the paths that exist to what is there.    *)
(* File-mode bits (shutil.copymode, copy2's metadata) are not part of the  *)
(* state: the code swallows their failures and nothing below reads them.   *)
(***************************************************************************)
EXTENDS Integers, Sequences, FiniteSets, TLC

VARIABLES
    fs,               \* the filesystem: path -> [kind, data]
    fs0,              \* the filesystem when main() was entered (history)
    addon_name,       \* args.addon_name
    force_overwrite,  \* args.force
    maintainer,       \* args.maintainer (<<>> when absent)
    pc,               \* where main() stands
    rc,               \* the outcome: exit status, or "crash" for an uncaught exception
    src_root,         \* the single top-level directory (a path)
    todo,             \* _process_tree_replace: the sorted source paths not yet visited
    processed_items,  \* the set of paths rglob found under processed_root
    conflicts,        \* the relative paths collected by the pre-flight check
    report,           \* the conflict list as printed (sorted)
    dirs_todo,        \* commit: staged directories not yet created
    files_todo,       \* commit: staged files not yet copied
    rw_text,          \* token rewriter on its own: the input text
    rw_new,           \* token rewriter on its own: the replacement
    rw_prev,          \* token rewriter on its own: the text before the last application
    rw_out,           \* token rewriter on its own: the text after rw_n applications
    rw_n              \* token rewriter on its own: applications so far

vars == <<fs, fs0, addon_name, force_overwrite, maintainer, pc, rc, src_root, todo,
          processed_items, conflicts, report, dirs_todo, files_todo,
          rw_text, rw_new, rw_prev, rw_out, rw_n>>

mainVars == <<fs, fs0, addon_name, force_overwrite, maintainer, pc, rc, src_root, todo,
              processed_items, conflicts, report, dirs_todo, files_todo>>

rwVars == <<rw_text, rw_new, rw_prev, rw_out, rw_n>>

----------------------------------------------------------------------------
(* Program constants *)

\* "addon_hello_world"
PLACEHOLDER_TOKEN ==
    <<97, 100, 100, 111, 110, 95, 104, 101, 108, 108, 111, 95, 119, 111, 114, 108, 100>>

\* "MAINTAINER_STRING"
MAINTAINER_PLACEHOLDER ==
    <<77, 65, 73, 78, 84, 65, 73, 78, 69, 82, 95, 83, 84, 82, 73, 78, 71>>

\* "README.md"
README_MD == <<82, 69, 65, 68, 77, 69, 46, 109, 100>>

\* The exclusion set holds path strings.
EXCLUDE_FILES == {README_MD}

\* raw[:4096], the classifier's sample
SAMPLE_SIZE == 4096

\* The path separator "/" and the names "." and ".."
SEP == <<47>>
DOT == <<46>>
DOTDOT == <<46, 46>>

----------------------------------------------------------------------------
(* Sequences and strings *)

Min(S) == CHOOSE x \in S : \A y \in S : x <= y

Range(s) == {s[i] : i \in 1..Len(s)}

IsPrefix(p, q) == Len(p) <= Len(q) /\ SubSeq(q, 1, Len(p)) = p

\* Python compares strings code point by code point, a proper prefix first.
RECURSIVE StrLess(_, _)
StrLess(a, b) ==
    IF a = <<>> THEN b # <<>>
    ELSE IF b = <<>> THEN FALSE
    ELSE IF Head(a) # Head(b) THEN Head(a) < Head(b)
    ELSE StrLess(Tail(a), Tail(b))

\* Paths compare as the tuples of their parts.
RECURSIVE PathLess(_, _)
PathLess(p, q) ==
    IF p = <<>> THEN q # <<>>
    ELSE IF q = <<>> THEN FALSE
    ELSE IF Head(p) # Head(q) THEN StrLess(Head(p), Head(q))
    ELSE PathLess(Tail(p), Tail(q))

\* sorted(): the paths of S in ascending order.
RECURSIVE Sorted(_)
Sorted(S) ==
    IF S = {} THEN <<>>
    ELSE LET m == CHOOSE x \in S : \A y \in S \ {x} : PathLess(x, y)
         IN  <<m>> \o Sorted(S \ {m})

\* The start positions of tok in s.
Occurrences(s, tok) ==
    {i \in 1..(Len(s) - Len(tok) + 1) :
        s[i] = tok[1] /\ SubSeq(s, i, i + Len(tok) - 1) = tok}

\* str.replace from position p on: the next occurrence at or after p is
\* replaced and the scan resumes behind it (left to right, non-overlapping).
RECURSIVE ReplaceFrom(_, _, _, _)
ReplaceFrom(s, tok, new, p) ==
    LET later == {i \in Occurrences(s, tok) : i >= p}
    IN  IF later = {} THEN SubSeq(s, p, Len(s))
        ELSE LET i == Min(later)
             IN  SubSeq(s, p, i - 1) \o new \o ReplaceFrom(s, tok, new, i + Len(tok))

\* A mutant of the token rewriter: only the first occurrence is replaced.
ReplaceFirstOnly(s, tok, new) ==
    LET occ == Occurrences(s, tok)
    IN  IF occ = {} THEN s
        ELSE SubSeq(s, 1, Min(occ) - 1) \o new
                 \o SubSeq(s, Min(occ) + Len(tok), Len(s))

\* s.replace(tok, new) for a non-empty tok
StrReplace(s, tok, new) == ReplaceFrom(s, tok, new, 1)

----------------------------------------------------------------------------
(* UTF-8 *)

IsCont(b) == b >= 128 /\ b <= 191

\* The number of continuation bytes a lead byte announces; -1: no lead byte.
NCont(b) ==
    IF b < 128 THEN 0
    ELSE IF b >= 194 /\ b <= 223 THEN 1
    ELSE IF b >= 224 /\ b <= 239 THEN 2
    ELSE IF b >= 240 /\ b <= 244 THEN 3
    ELSE -1

\* The second byte's range after the lead bytes that exclude overlong forms,
\* surrogates and code points beyond U+10FFFF.
SecondOk(lead, b) ==
    IF lead = 224 THEN b >= 160
    ELSE IF lead = 237 THEN b <= 159
    ELSE IF lead = 240 THEN b >= 144
    ELSE IF lead = 244 THEN b <= 143
    ELSE TRUE

\* bytes.decode("utf-8") succeeds
Utf8Valid(bs) ==
    \A i \in 1..Len(bs) :
        LET b == bs[i]
        IN  IF b < 128 THEN TRUE
            ELSE IF IsCont(b)
                 THEN \E j \in (IF i > 3 THEN i - 3 ELSE 1)..(i - 1) :
                          /\ NCont(bs[j]) >= 1
                          /\ i <= j + NCont(bs[j])
            ELSE /\ NCont(b) >= 1
                 /\ i + NCont(b) <= Len(bs)
                 /\ \A k \in 1..NCont(b) : IsCont(bs[i + k])
                 /\ SecondOk(b, bs[i + 1])

\* The code point of the character that starts at position i.
CodePointAt(bs, i) ==
    LET b == bs[i]
        n == NCont(b)
    IN  IF n = 0 THEN b
        ELSE IF n = 1 THEN (b - 192) * 64 + (bs[i + 1] - 128)
        ELSE IF n = 2 THEN (b - 224) * 4096 + (bs[i + 1] - 128) * 64 + (bs[i + 2] - 128)
        ELSE (b - 240) * 262144 + (bs[i + 1] - 128) * 4096
                 + (bs[i + 2] - 128) * 64 + (bs[i + 3] - 128)

\* bytes.decode("utf-8") of valid input: one code point per character.
Utf8Decode(bs) ==
    LET starts == SelectSeq([i \in 1..Len(bs) |-> i], LAMBDA i : ~IsCont(bs[i]))
    IN  [k \in 1..Len(starts) |-> CodePointAt(bs, starts[k])]

\* The j-th byte (0..3) of a code point's encoding, -1 beyond its length.
Utf8Byte(cp, j) ==
    IF cp < 128 THEN (IF j = 0 THEN cp ELSE -1)
    ELSE IF cp < 2048
         THEN (IF j = 0 THEN 192 + (cp \div 64)
               ELSE IF j = 1 THEN 128 + (cp % 64)
               ELSE -1)
    ELSE IF cp < 65536
         THEN (IF j = 0 THEN 224 + (cp \div 4096)
               ELSE IF j = 1 THEN 128 + ((cp \div 64) % 64)
               ELSE IF j = 2 THEN 128 + (cp % 64)
               ELSE -1)
    ELSE (IF j = 0 THEN 240 + (cp \div 262144)
          ELSE IF j = 1 THEN 128 + ((cp \div 4096) % 64)
          ELSE IF j = 2 THEN 128 + ((cp \div 64) % 64)
          ELSE 128 + (cp % 64))

\* str.encode("utf-8")
Utf8Encode(text) ==
    SelectSeq([j \in 1..(4 * Len(text)) |-> Utf8Byte(text[(j - 1) \div 4 + 1], (j - 1) % 4)],
              LAMBDA b : b >= 0)

----------------------------------------------------------------------------
(* Paths (pathlib) *)

\* The names of a path string: split at "/", empty names and "." dropped.
RECURSIVE SplitNames(_, _)
SplitNames(s, cur) ==
    LET done == IF cur = <<>> \/ cur = DOT THEN <<>> ELSE <<cur>>
    IN  IF s = <<>> THEN done
        ELSE IF <<Head(s)>> = SEP THEN done \o SplitNames(Tail(s), <<>>)
        ELSE SplitNames(Tail(s), Append(cur, Head(s)))

IsAbsolute(s) == s # <<>> /\ <<Head(s)>> = SEP

\* base.joinpath(*parts): an absolute part discards what precedes it.
RECURSIVE JoinPath(_, _)
JoinPath(base, parts) ==
    IF parts = <<>> THEN base
    ELSE JoinPath(IF IsAbsolute(Head(parts))
                  THEN SplitNames(Head(parts), <<>>)
                  ELSE base \o SplitNames(Head(parts), <<>>),
                  Tail(parts))

\* path.parent: the last name dropped, whatever it is; the root is its own parent.
Parent(p) == IF p = <<>> THEN <<>> ELSE SubSeq(p, 1, Len(p) - 1)

\* path.relative_to(root), for a path beneath root
RelativeTo(p, root) == SubSeq(p, Len(root) + 1, Len(p))

\* str(path) of a relative path: its parts joined by "/".
RECURSIVE PathStr(_)
PathStr(rel) ==
    IF rel = <<>> THEN DOT
    ELSE IF Len(rel) = 1 THEN Head(rel)
    ELSE Head(rel) \o SEP \o PathStr(Tail(rel))

----------------------------------------------------------------------------
(* The filesystem (POSIX) *)

Dir == [kind |-> "dir", data |-> <<>>]
File(bytes) == [kind |-> "file", data |-> bytes]

Ok(f) == [err |-> "", fs |-> f]
Fail(e, f) == [err |-> e, fs |-> f]

\* Path resolution: every name but the last must lead to a directory; ".."
\* steps to the parent of the directory reached so far.
RECURSIVE Walk(_, _, _)
Walk(f, cur, names) ==
    IF names = <<>> THEN [err |-> "", path |-> cur]
    ELSE LET nxt == IF Head(names) = DOTDOT THEN Parent(cur) ELSE Append(cur, Head(names))
         IN  IF Tail(names) = <<>> THEN [err |-> "", path |-> nxt]
             ELSE IF nxt \notin DOMAIN f THEN [err |-> "ENOENT", path |-> nxt]
             ELSE IF f[nxt].kind # "dir" THEN [err |-> "ENOTDIR", path |-> nxt]
             ELSE Walk(f, nxt, Tail(names))

Resolve(f, p) == Walk(f, <<>>, p)

Exists(f, p) == Resolve(f, p).err = "" /\ Resolve(f, p).path \in DOMAIN f
IsDir(f, p) == Exists(f, p) /\ f[Resolve(f, p).path].kind = "dir"
IsFile(f, p) == Exists(f, p) /\ f[Resolve(f, p).path].kind = "file"

\* os.mkdir
OsMkdir(f, p) ==
    LET r == Resolve(f, p)
    IN  IF r.err # "" THEN Fail(r.err, f)
        ELSE IF r.path \in DOMAIN f THEN Fail("EEXIST", f)
        ELSE Ok((r.path :> Dir) @@ f)

\* Path.mkdir(parents=True, exist_ok=True): a missing parent is created
\* first; any other error passes if the path is a directory by then.
RECURSIVE Mkdir(_, _)
Mkdir(f, p) ==
    LET r == OsMkdir(f, p)
    IN  IF r.err = "" THEN r
        ELSE IF r.err = "ENOENT"
             THEN IF Parent(p) = p THEN r
                  ELSE LET up == Mkdir(f, Parent(p))
                       IN  IF up.err # "" THEN up
                           ELSE LET again == OsMkdir(up.fs, p)
                                IN  IF again.err = "" \/ again.err = "ENOENT" THEN again
                                    ELSE IF IsDir(up.fs, p) THEN Ok(up.fs)
                                    ELSE again
        ELSE IF IsDir(f, p) THEN Ok(f)
        ELSE r

\* open(path, "w"/"wb") and write: creates or truncates a file.
WriteFile(f, p, bytes) ==
    LET r == Resolve(f, p)
    IN  IF r.err # "" THEN Fail(r.err, f)
        ELSE IF r.path \in DOMAIN f /\ f[r.path].kind = "dir" THEN Fail("EISDIR", f)
        ELSE Ok((r.path :> File(bytes)) @@ f)

\* root.rglob("*"): every path beneath root, nothing when root is no directory.
RGlob(f, root) ==
    IF root \in DOMAIN f /\ f[root].kind = "dir"
    THEN {p \in DOMAIN f : IsPrefix(root, p) /\ p # root}
    ELSE {}

\* shutil.rmtree(p) of a directory, Path.unlink() of a file: p and all beneath it go.
Remove(f, p) == [q \in {x \in DOMAIN f : ~IsPrefix(p, x)} |-> f[q]]

\* shutil.copy2(src, dst): into dst when dst is a directory, else onto dst.
Copy2(f, src, dst) ==
    WriteFile(f, IF IsDir(f, dst) THEN Append(dst, src[Len(src)]) ELSE dst, f[src].data)

----------------------------------------------------------------------------
(* The places main() works in *)

\* "tmp", "template.zip", "unzipped", "processed", "cwd"
S_TMP == <<116, 109, 112>>
S_TEMPLATE_ZIP == <<116, 101, 109, 112, 108, 97, 116, 101, 46, 122, 105, 112>>
S_UNZIPPED == <<117, 110, 122, 105, 112, 112, 101, 100>>
S_PROCESSED == <<112, 114, 111, 99, 101, 115, 115, 101, 100>>
S_CWD == <<99, 119, 100>>

\* tempfile.TemporaryDirectory(): a fresh directory, here /tmp
TMPDIR == <<S_TMP>>
ZIP_PATH == Append(TMPDIR, S_TEMPLATE_ZIP)
EXTRACT_ROOT == Append(TMPDIR, S_UNZIPPED)
PROCESSED_ROOT == Append(TMPDIR, S_PROCESSED)
\* Path.cwd(), here /cwd
DEST_ROOT == <<S_CWD>>
README_PATH == Append(DEST_ROOT, README_MD)

----------------------------------------------------------------------------
(* The leaf components *)

\* A mutant of the classifier: the NUL test is missing.
IsBinaryBytesNoNul(sample) == ~Utf8Valid(sample)

\* _is_binary_bytes
IsBinaryBytes(sample) ==
    IF \E i \in 1..Len(sample) : sample[i] = 0 THEN TRUE
    ELSE ~Utf8Valid(sample)

\* raw[:SAMPLE_SIZE]
Sample(raw) == SubSeq(raw, 1, IF Len(raw) < SAMPLE_SIZE THEN Len(raw) ELSE SAMPLE_SIZE)

\* The token rewriter on decoded text: the placeholder, then the maintainer
\* placeholder when a maintainer was given.
RewriteText(text, replacement, maint) ==
    LET replaced == StrReplace(text, PLACEHOLDER_TOKEN, replacement)
    IN  IF maint # <<>> THEN StrReplace(replaced, MAINTAINER_PLACEHOLDER, maint)
        ELSE replaced

\* The bytes _process_tree_replace writes for a file whose bytes are raw.
StagedBytes(raw, replacement, maint) ==
    IF IsBinaryBytes(Sample(raw)) THEN raw
    ELSE IF ~Utf8Valid(raw) THEN raw
    ELSE Utf8Encode(RewriteText(Utf8Decode(raw), replacement, maint))

\* The path rewriter: the token replaced in every part.
RewriteParts(rel, replacement) ==
    [i \in 1..Len(rel) |-> StrReplace(rel[i], PLACEHOLDER_TOKEN, replacement)]

\* dst_root.joinpath(*rel_parts)
StagedPath(rel, replacement) == JoinPath(PROCESSED_ROOT, RewriteParts(rel, replacement))

\* A mutant of the layout check: any number of directories but zero passes.
IterAnyTopLevelDir(f, root) ==
    LET entries == {p \in DOMAIN f : Parent(p) = root /\ p # root /\ f[p].kind = "dir"}
    IN  IF entries = {} THEN [ok |-> FALSE, dir |-> <<>>]
        ELSE [ok |-> TRUE, dir |-> CHOOSE p \in entries : \A q \in entries \ {p} : PathLess(p, q)]

\* _iter_single_top_level_dir
IterSingleTopLevelDir(f, root) ==
    LET entries == {p \in DOMAIN f : Parent(p) = root /\ p # root /\ f[p].kind = "dir"}
    IN  IF Cardinality(entries) # 1 THEN [ok |-> FALSE, dir |-> <<>>]
        ELSE [ok |-> TRUE, dir |-> CHOOSE p \in entries : TRUE]

\* A mutant of the pre-flight check: it stops at the first conflict.
FirstConflictOnly(f, items) ==
    LET all == {RelativeTo(p, PROCESSED_ROOT) : p \in {q \in items :
                    Exists(f, DEST_ROOT \o RelativeTo(q, PROCESSED_ROOT))}}
    IN  IF all = {} THEN {} ELSE {CHOOSE r \in all : \A s \in all \ {r} : PathLess(r, s)}

\* A mutant of the pre-flight check: only staged files are probed.
FileConflictsOnly(f, items) ==
    {RelativeTo(p, PROCESSED_ROOT) : p \in {q \in items :
        /\ f[q].kind = "file"
        /\ Exists(f, DEST_ROOT \o RelativeTo(q, PROCESSED_ROOT))}}

\* The pre-flight loop: every staged item is probed at the destination.
RECURSIVE CollectConflicts(_, _, _)
CollectConflicts(f, items, acc) ==
    IF items = <<>> THEN acc
    ELSE LET rel == RelativeTo(Head(items), PROCESSED_ROOT)
         IN  CollectConflicts(f, Tail(items),
                 IF Exists(f, DEST_ROOT \o rel) THEN acc \cup {rel} ELSE acc)

\* The contents of the conflicts list after the loop (its order is rglob's,
\* which the report's sort discards).
ConflictsOf(f, items) == CollectConflicts(f, Sorted(items), {})

\* The generated README: "# name\n\nDescription of name."
ReadmeContent(name) ==
    Utf8Encode(<<35, 32>> \o name
               \o <<10, 10, 68, 101, 115, 99, 114, 105, 112, 116, 105, 111, 110, 32, 111, 102, 32>>
               \o name \o <<46>>)

\* Leaving the with block: TemporaryDirectory removes its tree.
Cleanup(f) == Remove(f, TMPDIR)

----------------------------------------------------------------------------
(* Inputs: extracted archives, add-on names, destinations *)

\* "tpl-main", "other", "top.txt", "__init__.py", "my_cool_tool", "LICENSE", "c", "f", "g"
S_TPL_MAIN == <<116, 112, 108, 45, 109, 97, 105, 110>>
S_OTHER == <<111, 116, 104, 101, 114>>
S_TOP_TXT == <<116, 111, 112, 46, 116, 120, 116>>
S_INIT_PY == <<95, 95, 105, 110, 105, 116, 95, 95, 46, 112, 121>>
S_MY_COOL_TOOL == <<109, 121, 95, 99, 111, 111, 108, 95, 116, 111, 111, 108>>
S_LICENSE == <<76, 73, 67, 69, 78, 83, 69>>
S_C == <<99>>
S_F == <<102>>
S_G == <<103>>

\* 'NAME = "' name '"'
NameLine(name) == <<78, 65, 77, 69, 32, 61, 32, 34>> \o name \o <<34>>
\* "old", "mine", "tpl doc", "one", "two"
OLD == <<111, 108, 100>>
MINE == <<109, 105, 110, 101>>
TPL_DOC == <<116, 112, 108, 32, 100, 111, 99>>
ONE == <<111, 110, 101>>
TWO == <<116, 119, 111>>
\* "me"
ME == <<109, 101>>
\* "/cwd", "a/b"
ABS_CWD == SEP \o S_CWD
A_SLASH_B == <<97, 47, 98>>

\* The function with the given <<path, entry>> pairs.
Tree(pairs) == [p \in {e[1] : e \in pairs} |-> (CHOOSE e \in pairs : e[1] = p)[2]]

\* f with tree placed beneath root.
Graft(f, root, tree) ==
    [p \in DOMAIN f \cup {root \o q : q \in DOMAIN tree} |->
        IF p \in DOMAIN f THEN f[p] ELSE tree[RelativeTo(p, root)]]

\* Scenario A: tpl-main/addon_hello_world/__init__.py
TreeA ==
    { <<<<S_TPL_MAIN>>, Dir>>,
      <<<<S_TPL_MAIN, PLACEHOLDER_TOKEN>>, Dir>>,
      <<<<S_TPL_MAIN, PLACEHOLDER_TOKEN, S_INIT_PY>>, File(NameLine(PLACEHOLDER_TOKEN))>> }

\* What the archive may extract to (relative to the extraction root).
ExtractedTrees ==
    { Tree(TreeA),
      \* with the template's own README.md and a LICENSE
      Tree(TreeA \cup { <<<<S_TPL_MAIN, README_MD>>, File(TPL_DOC)>>,
                        <<<<S_TPL_MAIN, S_LICENSE>>, File(ONE)>> }),
      \* scenario E: two top-level directories
      Tree(TreeA \cup { <<<<S_OTHER>>, Dir>> }),
      \* no top-level directory
      Tree({ <<<<S_TOP_TXT>>, File(ONE)>> }),
      \* a top-level file beside the single directory
      Tree(TreeA \cup { <<<<S_TOP_TXT>>, File(ONE)>> }),
      \* an empty template, and one with nothing but the excluded file
      Tree({ <<<<S_TPL_MAIN>>, Dir>> }),
      Tree({ <<<<S_TPL_MAIN>>, Dir>>, <<<<S_TPL_MAIN, README_MD>>, File(TPL_DOC)>> }),
      \* two files whose names the rewrite can make equal
      Tree({ <<<<S_TPL_MAIN>>, Dir>>,
             <<<<S_TPL_MAIN, PLACEHOLDER_TOKEN>>, File(ONE)>>,
             <<<<S_TPL_MAIN, S_MY_COOL_TOOL>>, File(TWO)>> }),
      \* a file and a directory whose names the rewrite can make equal
      Tree({ <<<<S_TPL_MAIN>>, Dir>>,
             <<<<S_TPL_MAIN, PLACEHOLDER_TOKEN>>, File(ONE)>>,
             <<<<S_TPL_MAIN, S_MY_COOL_TOOL>>, Dir>> }),
      Tree(TreeA \cup { <<<<S_TPL_MAIN, S_MY_COOL_TOOL>>, File(TWO)>> }),
      \* README.md is a directory with a file in it
      Tree({ <<<<S_TPL_MAIN>>, Dir>>,
             <<<<S_TPL_MAIN, README_MD>>, Dir>>,
             <<<<S_TPL_MAIN, README_MD, S_C>>, File(ONE)>> }) }

\* The add-on names tried on these trees.
AddonNames == {S_MY_COOL_TOOL, <<>>, DOTDOT, ABS_CWD, A_SLASH_B, README_MD}

\* What may already lie in the current directory (relative to it).
DestCandidates ==
    { <<<<S_MY_COOL_TOOL>>, Dir>>,
      <<<<S_MY_COOL_TOOL>>, File(OLD)>>,
      <<<<S_MY_COOL_TOOL, S_INIT_PY>>, File(OLD)>>,
      <<<<S_MY_COOL_TOOL, S_INIT_PY>>, Dir>>,
      <<<<README_MD>>, File(MINE)>>,
      <<<<README_MD>>, Dir>>,
      <<<<S_LICENSE>>, File(MINE)>>,
      <<<<S_INIT_PY>>, File(OLD)>> }

\* The most entries a destination starts with.
MaxDestEntries == 3

\* A set of pairs is a tree: one entry per path, every parent a directory of it.
IsTree(pairs) ==
    /\ \A a, b \in pairs : a[1] = b[1] => a = b
    /\ \A a \in pairs : Len(a[1]) > 1 => <<Parent(a[1]), Dir>> \in pairs

DestTrees ==
    {Tree(s) : s \in {x \in SUBSET DestCandidates : Cardinality(x) <= MaxDestEntries /\ IsTree(x)}}

\* File contents for the classifier and the rewriter.
Filler(n) == [i \in 1..n |-> 120]

Contents ==
    { NameLine(PLACEHOLDER_TOKEN),
      <<>>,
      \* scenario D: NUL at the start, token behind it
      <<0, 1, 2, 32>> \o PLACEHOLDER_TOKEN,
      \* NUL behind the sample
      Filler(SAMPLE_SIZE) \o <<0, 32>> \o PLACEHOLDER_TOKEN,
      \* NUL as the sample's last byte
      Filler(SAMPLE_SIZE - 1) \o <<0, 32>> \o PLACEHOLDER_TOKEN,
      \* not UTF-8 within the sample, and only behind it
      <<255, 32>> \o PLACEHOLDER_TOKEN,
      PLACEHOLDER_TOKEN \o Filler(SAMPLE_SIZE) \o <<255>>,
      \* a two-byte character, whole and cut by the sample's end
      <<195, 169, 32>> \o PLACEHOLDER_TOKEN,
      Filler(SAMPLE_SIZE - 1) \o <<195, 169, 32>> \o PLACEHOLDER_TOKEN,
      \* both placeholders
      PLACEHOLDER_TOKEN \o <<32>> \o MAINTAINER_PLACEHOLDER }

ContentTrees ==
    { Tree({ <<<<S_TPL_MAIN>>, Dir>>,
             <<<<S_TPL_MAIN, S_F>>, File(c)>>,
             <<<<S_TPL_MAIN, S_G>>, File(NameLine(PLACEHOLDER_TOKEN))>> }) : c \in Contents }

ContentDests == { Tree({}), Tree({ <<<<S_F>>, File(OLD)>> }) }

\* The filesystem main() finds once the archive is extracted.
StartFs(extracted, dest) ==
    Graft(Graft(Tree({ <<<<>>, Dir>>, <<TMPDIR, Dir>>, <<ZIP_PATH, File(<<>>)>>,
                       <<EXTRACT_ROOT, Dir>>, <<DEST_ROOT, Dir>> }),
                EXTRACT_ROOT, extracted),
          DEST_ROOT, dest)

----------------------------------------------------------------------------
(* main() *)

RwIdle ==
    /\ rw_text = <<>>
    /\ rw_new = <<>>
    /\ rw_prev = <<>>
    /\ rw_out = <<>>
    /\ rw_n = 0

InitRun(extracted, dest, name, force, maint) ==
    /\ fs = StartFs(extracted, dest)
    /\ fs0 = fs
    /\ addon_name = name
    /\ force_overwrite = force
    /\ maintainer = maint
    /\ pc = "layout"
    /\ rc = "none"
    /\ src_root = <<>>
    /\ todo = <<>>
    /\ processed_items = {}
    /\ conflicts = {}
    /\ report = <<>>
    /\ dirs_todo = <<>>
    /\ files_todo = <<>>
    /\ RwIdle

Init ==
    \/ \E extracted \in ExtractedTrees, dest \in DestTrees,
          name \in AddonNames, force \in BOOLEAN :
           InitRun(extracted, dest, name, force, <<>>)
    \/ \E extracted \in ContentTrees, dest \in ContentDests,
          name \in {S_MY_COOL_TOOL, <<>>}, force \in BOOLEAN, maint \in {<<>>, ME} :
           InitRun(extracted, dest, name, force, maint)

\* return code, or an exception nobody catches: the with block is left.
Exit(f, code) ==
    /\ fs' = Cleanup(f)
    /\ rc' = code
    /\ pc' = "done"

\* _iter_single_top_level_dir raised: return 4
LayoutFail ==
    /\ pc = "layout"
    /\ ~IterSingleTopLevelDir(fs, EXTRACT_ROOT).ok
    /\ Exit(fs, "4")
    /\ UNCHANGED <<fs0, addon_name, force_overwrite, maintainer, src_root, todo,
                   processed_items, conflicts, report, dirs_todo, files_todo, rwVars>>

\* src_root found; _process_tree_replace lists and sorts the source tree
LayoutOk ==
    /\ pc = "layout"
    /\ IterSingleTopLevelDir(fs, EXTRACT_ROOT).ok
    /\ src_root' = IterSingleTopLevelDir(fs, EXTRACT_ROOT).dir
    /\ todo' = Sorted(RGlob(fs, src_root'))
    /\ pc' = "process"
    /\ UNCHANGED <<fs, fs0, addon_name, force_overwrite, maintainer, rc,
                   processed_items, conflicts, report, dirs_todo, files_todo, rwVars>>

\* The loop body of _process_tree_replace for an excluded path
ProcessSkip ==
    /\ pc = "process"
    /\ todo # <<>>
    /\ PathStr(RelativeTo(Head(todo), src_root)) \in EXCLUDE_FILES
    /\ todo' = Tail(todo)
    /\ UNCHANGED <<fs, fs0, addon_name, force_overwrite, maintainer, pc, rc, src_root,
                   processed_items, conflicts, report, dirs_todo, files_todo, rwVars>>

\* The loop body for a directory
ProcessDir ==
    /\ pc = "process"
    /\ todo # <<>>
    /\ PathStr(RelativeTo(Head(todo), src_root)) \notin EXCLUDE_FILES
    /\ IsDir(fs, Head(todo))
    /\ LET r == Mkdir(fs, StagedPath(RelativeTo(Head(todo), src_root), addon_name))
       IN  IF r.err # "" THEN Exit(r.fs, "crash") /\ UNCHANGED todo
           ELSE fs' = r.fs /\ todo' = Tail(todo) /\ UNCHANGED <<pc, rc>>
    /\ UNCHANGED <<fs0, addon_name, force_overwrite, maintainer, src_root,
                   processed_items, conflicts, report, dirs_todo, files_todo, rwVars>>

\* The loop body for a file
ProcessFile ==
    /\ pc = "process"
    /\ todo # <<>>
    /\ PathStr(RelativeTo(Head(todo), src_root)) \notin EXCLUDE_FILES
    /\ ~IsDir(fs, Head(todo))
    /\ LET dst == StagedPath(RelativeTo(Head(todo), src_root), addon_name)
           up == Mkdir(fs, Parent(dst))
           w == WriteFile(up.fs, dst, StagedBytes(fs[Head(todo)].data, addon_name, maintainer))
       IN  IF up.err # "" THEN Exit(up.fs, "crash") /\ UNCHANGED todo
           ELSE IF w.err # "" THEN Exit(w.fs, "crash") /\ UNCHANGED todo
           ELSE fs' = w.fs /\ todo' = Tail(todo) /\ UNCHANGED <<pc, rc>>
    /\ UNCHANGED <<fs0, addon_name, force_overwrite, maintainer, src_root,
                   processed_items, conflicts, report, dirs_todo, files_todo, rwVars>>

\* processed_items listed; nothing there: return 6
ListProcessed ==
    /\ pc = "process"
    /\ todo = <<>>
    /\ processed_items' = RGlob(fs, PROCESSED_ROOT)
    /\ IF processed_items' = {} THEN Exit(fs, "6")
       ELSE pc' = "check" /\ UNCHANGED <<fs, rc>>
    /\ UNCHANGED <<fs0, addon_name, force_overwrite, maintainer, src_root, todo,
                   conflicts, report, dirs_todo, files_todo, rwVars>>

\* The pre-flight collision check
ConflictCheck ==
    /\ pc = "check"
    /\ conflicts' = ConflictsOf(fs, processed_items)
    /\ pc' = "gate"
    /\ UNCHANGED <<fs, fs0, addon_name, force_overwrite, maintainer, rc, src_root, todo,
                   processed_items, report, dirs_todo, files_todo, rwVars>>

\* Conflicts and no --force: the sorted list is printed, return 5
GateAbort ==
    /\ pc = "gate"
    /\ conflicts # {} /\ ~force_overwrite
    /\ report' = Sorted(conflicts)
    /\ Exit(fs, "5")
    /\ UNCHANGED <<fs0, addon_name, force_overwrite, maintainer, src_root, todo,
                   processed_items, conflicts, dirs_todo, files_todo, rwVars>>

\* The commit starts: the staged directories, sorted
GateProceed ==
    /\ pc = "gate"
    /\ ~(conflicts # {} /\ ~force_overwrite)
    /\ dirs_todo' = Sorted({p \in RGlob(fs, PROCESSED_ROOT) : IsDir(fs, p)})
    /\ pc' = "dirs"
    /\ UNCHANGED <<fs, fs0, addon_name, force_overwrite, maintainer, rc, src_root, todo,
                   processed_items, conflicts, report, files_todo, rwVars>>

\* One directory of the commit
CommitDir ==
    /\ pc = "dirs"
    /\ dirs_todo # <<>>
    /\ LET r == Mkdir(fs, DEST_ROOT \o RelativeTo(Head(dirs_todo), PROCESSED_ROOT))
       IN  IF r.err # "" THEN Exit(r.fs, "crash") /\ UNCHANGED dirs_todo
           ELSE fs' = r.fs /\ dirs_todo' = Tail(dirs_todo) /\ UNCHANGED <<pc, rc>>
    /\ UNCHANGED <<fs0, addon_name, force_overwrite, maintainer, src_root, todo,
                   processed_items, conflicts, report, files_todo, rwVars>>

\* The directories are done: the staged files, sorted
BeginFiles ==
    /\ pc = "dirs"
    /\ dirs_todo = <<>>
    /\ files_todo' = Sorted({p \in RGlob(fs, PROCESSED_ROOT) : IsFile(fs, p)})
    /\ pc' = "files"
    /\ UNCHANGED <<fs, fs0, addon_name, force_overwrite, maintainer, rc, src_root, todo,
                   processed_items, conflicts, report, dirs_todo, rwVars>>

\* One file of the commit
CommitFile ==
    /\ pc = "files"
    /\ files_todo # <<>>
    /\ LET dst == DEST_ROOT \o RelativeTo(Head(files_todo), PROCESSED_ROOT)
           cleared == IF force_overwrite /\ Exists(fs, dst) THEN Remove(fs, dst) ELSE fs
           up == Mkdir(cleared, Parent(dst))
           w == Copy2(up.fs, Head(files_todo), dst)
       IN  IF up.err # "" THEN Exit(up.fs, "crash") /\ UNCHANGED files_todo
           ELSE IF w.err # "" THEN Exit(w.fs, "crash") /\ UNCHANGED files_todo
           ELSE fs' = w.fs /\ files_todo' = Tail(files_todo) /\ UNCHANGED <<pc, rc>>
    /\ UNCHANGED <<fs0, addon_name, force_overwrite, maintainer, src_root, todo,
                   processed_items, conflicts, report, dirs_todo, rwVars>>

\* The files are done: README.md is generated or left, return 0
Readme ==
    /\ pc = "files"
    /\ files_todo = <<>>
    /\ LET w == IF ~Exists(fs, README_PATH) \/ force_overwrite
                THEN WriteFile(fs, README_PATH, ReadmeContent(addon_name))
                ELSE Ok(fs)
       IN  IF w.err # "" THEN Exit(w.fs, "crash") ELSE Exit(w.fs, "0")
    /\ UNCHANGED <<fs0, addon_name, force_overwrite, maintainer, src_root, todo,
                   processed_items, conflicts, report, dirs_todo, files_todo, rwVars>>

Next ==
    \/ LayoutFail
    \/ LayoutOk
    \/ ProcessSkip
    \/ ProcessDir
    \/ ProcessFile
    \/ ListProcessed
    \/ ConflictCheck
    \/ GateAbort
    \/ GateProceed
    \/ CommitDir
    \/ BeginFiles
    \/ CommitFile
    \/ Readme

Spec == Init /\ [][Next]_vars

----------------------------------------------------------------------------
(* The token rewriter on its own *)

\* "addon", "_hello_", "_hello_world", "world", "ddon_hello_world", "addon_hello_worl", "x"
P_ADDON == <<97, 100, 100, 111, 110>>
P_HELLO == <<95, 104, 101, 108, 108, 111, 95>>
P_HELLO_WORLD == <<95, 104, 101, 108, 108, 111, 95, 119, 111, 114, 108, 100>>
P_WORLD == <<119, 111, 114, 108, 100>>
P_DDON_HELLO_WORLD == <<100, 100, 111, 110, 95, 104, 101, 108, 108, 111, 95, 119, 111, 114, 108, 100>>
P_ADDON_HELLO_WORL == <<97, 100, 100, 111, 110, 95, 104, 101, 108, 108, 111, 95, 119, 111, 114, 108>>
P_X == <<120>>

\* Texts are made of these pieces: the token, parts of it, and a letter.
TextPieces ==
    {PLACEHOLDER_TOKEN, P_ADDON, P_HELLO_WORLD, P_WORLD, P_DDON_HELLO_WORLD,
     P_ADDON_HELLO_WORL, P_X}

\* The most pieces a text is made of.
MaxPieces == 3

RECURSIVE Concat(_)
Concat(ss) == IF ss = <<>> THEN <<>> ELSE Head(ss) \o Concat(Tail(ss))

Texts == UNION {{Concat(ss) : ss \in [1..n -> TextPieces]} : n \in 0..MaxPieces}

\* Replacements: names, the empty string, parts of the token, strings that
\* begin with the token's end or end with its beginning, and strings holding it.
Replacements ==
    {S_MY_COOL_TOOL, P_X, <<>>, P_ADDON, P_HELLO, P_HELLO_WORLD,
     <<120, 97>>, <<100, 120>>, PLACEHOLDER_TOKEN, P_X \o PLACEHOLDER_TOKEN}

\* The most applications of the rewriter to one text.
MaxApplications == 2

MainIdle ==
    /\ fs = Tree({<<<<>>, Dir>>})
    /\ fs0 = fs
    /\ addon_name = <<>>
    /\ force_overwrite = FALSE
    /\ maintainer = <<>>
    /\ pc = "rewriter"
    /\ rc = "none"
    /\ src_root = <<>>
    /\ todo = <<>>
    /\ processed_items = {}
    /\ conflicts = {}
    /\ report = <<>>
    /\ dirs_todo = <<>>
    /\ files_todo = <<>>

RwInit ==
    /\ rw_text \in Texts
    /\ rw_new \in Replacements
    /\ rw_prev = rw_text
    /\ rw_out = rw_text
    /\ rw_n = 0
    /\ MainIdle

\* text.replace(PLACEHOLDER_TOKEN, replacement), applied to its own result
RwApply ==
    /\ rw_n < MaxApplications
    /\ rw_prev' = rw_out
    /\ rw_out' = StrReplace(rw_out, PLACEHOLDER_TOKEN, rw_new)
    /\ rw_n' = rw_n + 1
    /\ UNCHANGED <<rw_text, rw_new, mainVars>>

RwNext == RwApply

SpecRewrite == RwInit /\ [][RwNext]_vars

----------------------------------------------------------------------------
(* What the claims speak of *)

\* The destination directory and all beneath it.
DestOf(f) == [p \in {q \in DOMAIN f : IsPrefix(DEST_ROOT, q)} |-> f[p]]

\* The relative paths of the staging tree.
StagedRel(f) ==
    {RelativeTo(p, PROCESSED_ROOT) :
        p \in {q \in DOMAIN f : IsPrefix(PROCESSED_ROOT, q) /\ q # PROCESSED_ROOT}}

\* The relative paths of the source tree that are not excluded.
SourceRel ==
    {r \in {RelativeTo(p, src_root) :
                p \in {q \in DOMAIN fs0 : IsPrefix(src_root, q) /\ q # src_root}} :
        PathStr(r) \notin EXCLUDE_FILES}

\* The directories directly in the extraction root when main() was entered.
TopDirs0 ==
    {p \in DOMAIN fs0 : /\ Len(p) = Len(EXTRACT_ROOT) + 1
                        /\ IsPrefix(EXTRACT_ROOT, p)
                        /\ fs0[p].kind = "dir"}

\* tok occurs in s.
Contains(s, tok) ==
    \E i \in 1..(Len(s) - Len(tok) + 1) : SubSeq(s, i, i + Len(tok) - 1) = tok

\* An end of r is the other end of tok.
Overlaps(r, tok) ==
    \E k \in 1..(IF Len(r) < Len(tok) THEN Len(r) ELSE Len(tok)) :
        \/ SubSeq(r, Len(r) - k + 1, Len(r)) = SubSeq(tok, 1, k)
        \/ SubSeq(r, 1, k) = SubSeq(tok, Len(tok) - k + 1, Len(tok))

\* The Tree Processor has visited every source entry.
Processed == pc = "process" /\ todo = <<>>

\* The Tree Processor is about to handle a file it does not exclude.
AtFile ==
    /\ pc = "process"
    /\ todo # <<>>
    /\ PathStr(RelativeTo(Head(todo), src_root)) \notin EXCLUDE_FILES
    /\ IsFile(fs, Head(todo))

\* What lies, after the step, where the file at hand is staged.
WrittenIs(bytes) ==
    LET at == Resolve(fs', StagedPath(RelativeTo(Head(todo), src_root), addon_name))
    IN  at.err = "" /\ at.path \in DOMAIN fs' /\ fs'[at.path] = File(bytes)

----------------------------------------------------------------------------
C2_OverwriteCommitSucceeds ==
    [][(force_overwrite /\ conflicts # {}) =>
          /\ (pc = "dirs" /\ dirs_todo # <<>>) =>
                 /\ rc' # "crash"
                 /\ IsDir(fs', DEST_ROOT \o RelativeTo(Head(dirs_todo), PROCESSED_ROOT))
          /\ (pc = "files" /\ files_todo # <<>>) =>
                 /\ rc' # "crash"
                 /\ LET dst == DEST_ROOT \o RelativeTo(Head(files_todo), PROCESSED_ROOT)
                    IN  dst \in DOMAIN fs' /\ fs'[dst] = File(fs[Head(files_todo)].data)]_vars

(* C3: the conflict check collects exactly the staged relative paths (files *)
(* and directories) that exist at the destination, all of them and no       *)
(* other, and leaves the destination as it was.                             *)
C3_ConflictSetIsExact ==
    /\ [](pc = "gate" => conflicts = {r \in StagedRel(fs) : DEST_ROOT \o r \in DOMAIN fs})
    /\ [][pc = "check" => DestOf(fs') = DestOf(fs)]_vars

\* C3's case: some staged paths exist at the destination, several, and not all.
C3_Witness ==
    /\ pc = "gate"
    /\ Cardinality(conflicts) >= 2
    /\ StagedRel(fs) \ conflicts # {}
    /\ \A r \in conflicts : DEST_ROOT \o r \in DOMAIN fs0

\* Scenario B: scenario A's template, the name my_cool_tool, no overwrite,
\* and a destination that holds my_cool_tool/__init__.py.
ScenarioB ==
    /\ \E dest \in DestTrees : fs0 = StartFs(Tree(TreeA), dest)
    /\ DEST_ROOT \o <<S_MY_COOL_TOOL, S_INIT_PY>> \in DOMAIN fs0
    /\ addon_name = S_MY_COOL_TOOL
    /\ ~force_overwrite

(* C4 as claimed: in scenario B the run aborts with the conflict outcome    *)
(* and the reported list is the single path my_cool_tool/__init__.py.       *)
C4_ReportIsTheFileAlone ==
    (ScenarioB /\ pc = "done")
        => (rc = "5" /\ report = << <<S_MY_COOL_TOOL, S_INIT_PY>> >>)

(* C4 as amended: in scenario B the run aborts with the conflict outcome    *)
(* and the reported list is my_cool_tool, then my_cool_tool/__init__.py:    *)
(* the staged directory exists at the destination too.                      *)
C4_ReportIsDirectoryAndFile ==
    (ScenarioB /\ pc = "done")
        => /\ rc = "5"
           /\ report = << <<S_MY_COOL_TOOL>>, <<S_MY_COOL_TOOL, S_INIT_PY>> >>
           /\ DestOf(fs) = DestOf(fs0)

\* C4's case: scenario B has run to its end.
C4_Witness == ScenarioB /\ pc = "done" /\ rc = "5" /\ Len(report) = 2

(* C5: when the Tree Processor has finished, the staging tree's relative    *)
(* paths are the rewritten paths of the source entries that are not         *)
(* excluded, one staging entry of the same kind for each, and distinct      *)
(* source entries have distinct staging entries.                            *)
C5_StagingMirrorsSource ==
    Processed =>
        /\ StagedRel(fs) = {RewriteParts(r, addon_name) : r \in SourceRel}
        /\ \A a, b \in SourceRel :
               a # b => RewriteParts(a, addon_name) # RewriteParts(b, addon_name)
        /\ \A r \in SourceRel :
               /\ PROCESSED_ROOT \o RewriteParts(r, addon_name) \in DOMAIN fs
               /\ fs[PROCESSED_ROOT \o RewriteParts(r, addon_name)].kind
                      = fs0[src_root \o r].kind

(* C6: unless the extraction root holds exactly one directory the run ends  *)
(* in the layout failure before the Tree Processor starts and nothing is    *)
(* created or written anywhere; if it holds exactly one, that directory is  *)
(* the source root and what is processed lies in it.                        *)
C6_SingleTopLevelDirectory ==
    /\ Cardinality(TopDirs0) # 1 =>
           /\ pc \in {"layout", "done"}
           /\ pc = "done" => rc = "4"
           /\ todo = <<>>
           /\ \A p \in DOMAIN fs : p \in DOMAIN fs0 /\ fs[p] = fs0[p]
    /\ (Cardinality(TopDirs0) = 1 /\ pc # "layout") =>
           /\ rc # "4"
           /\ src_root \in TopDirs0
           /\ \A i \in 1..Len(todo) : IsPrefix(src_root, todo[i]) /\ todo[i] # src_root

\* C6's case: two top-level directories, and the run has ended.
C6_Witness == Cardinality(TopDirs0) = 2 /\ pc = "done" /\ rc = "4"

(* C7 as claimed: for a source file with a NUL byte anywhere in it, the     *)
(* file the Tree Processor writes has the source's bytes.                   *)
C7_NulAnywhereIsCopied ==
    [][(AtFile /\ 0 \in Range(fs[Head(todo)].data) /\ rc' # "crash")
           => WrittenIs(fs[Head(todo)].data)]_vars

(* C7 as amended: for a source file with a NUL byte among its first 4096    *)
(* bytes, the file the Tree Processor writes has the source's bytes; a file *)
(* whose first 4096 bytes hold no NUL and decode as UTF-8, and which        *)
(* decodes as UTF-8 as a whole, is written with the placeholders replaced.  *)
C7_NulInSampleIsCopied ==
    [][(AtFile /\ rc' # "crash") =>
          LET raw == fs[Head(todo)].data
              head == SubSeq(raw, 1, IF Len(raw) < 4096 THEN Len(raw) ELSE 4096)
          IN  /\ 0 \in Range(head) => WrittenIs(raw)
              /\ (0 \notin Range(head) /\ Utf8Valid(head) /\ Utf8Valid(raw)) =>
                     WrittenIs(Utf8Encode(RewriteText(Utf8Decode(raw), addon_name, maintainer)))]_vars

\* C7's case: a file with a NUL byte and the token is staged as it was,
\* beside a text file that is staged rewritten.
C7_Witness ==
    /\ Processed
    /\ \E p, q \in RGlob(fs0, src_root) :
           LET sp == PROCESSED_ROOT \o RelativeTo(p, src_root)
               sq == PROCESSED_ROOT \o RelativeTo(q, src_root)
           IN  /\ fs0[p].kind = "file" /\ fs0[q].kind = "file"
               /\ 0 \in Range(fs0[p].data)
               /\ Contains(fs0[p].data, PLACEHOLDER_TOKEN)
               /\ sp \in DOMAIN fs /\ fs[sp] = fs0[p]
               /\ sq \in DOMAIN fs /\ fs[sq].kind = "file" /\ fs[sq] # fs0[q]
               /\ ~Contains(fs[sq].data, PLACEHOLDER_TOKEN)

(* C8 as claimed: when the replacement holds no occurrence of the token,    *)
(* rewriting a rewritten text changes nothing.                              *)
C8_IdempotentIfReplacementLacksToken ==
    (rw_n >= 2 /\ ~Contains(rw_new, PLACEHOLDER_TOKEN)) => rw_out = rw_prev

(* C8 as amended: when the replacement holds no occurrence of the token, is *)
(* not itself a part of the token (the empty string is), and neither begins *)
(* with an end of the token nor ends with a beginning of it, rewriting a    *)
(* rewritten text changes nothing.                                          *)
C8_IdempotentIfReplacementClearOfToken ==
    (/\ rw_n >= 2
     /\ ~Contains(rw_new, PLACEHOLDER_TOKEN)
     /\ ~Contains(PLACEHOLDER_TOKEN, rw_new)
     /\ ~Overlaps(rw_new, PLACEHOLDER_TOKEN))
        => rw_out = rw_prev

\* C8's case: a text with the token has been rewritten twice with such a
\* replacement.
C8_Witness ==
    /\ rw_n = 2
    /\ ~Contains(rw_new, PLACEHOLDER_TOKEN)
    /\ ~Contains(PLACEHOLDER_TOKEN, rw_new)
    /\ ~Overlaps(rw_new, PLACEHOLDER_TOKEN)
    /\ Contains(rw_text, PLACEHOLDER_TOKEN)
    /\ rw_out # rw_text
    /\ rw_out = rw_prev

(* C9: on a successful run README.md holds the generated document if it was *)
(* absent before the run or overwrite was requested, and otherwise is what  *)
(* it was before the run.                                                   *)
C9_ReadmeGeneratedIffAbsentOrForced ==
    (pc = "done" /\ rc = "0") =>
        /\ (README_PATH \notin DOMAIN fs0 \/ force_overwrite) =>
               /\ README_PATH \in DOMAIN fs
               /\ fs[README_PATH] = File(ReadmeContent(addon_name))
        /\ (README_PATH \in DOMAIN fs0 /\ ~force_overwrite) =>
               /\ README_PATH \in DOMAIN fs
               /\ fs[README_PATH] = fs0[README_PATH]

(* C10: whatever the add-on name, until the conflict check has run every    *)
(* path the Tree Processor has created or written lies beneath the staging  *)
(* root.                                                                    *)
C10_WritesStayInStaging ==
    pc \in {"process", "check", "gate"} =>
        \A p \in DOMAIN fs :
            (p \notin DOMAIN fs0 \/ fs[p] # fs0[p]) => IsPrefix(PROCESSED_ROOT, p)

====
